---- MODULE Spec2Model ----
(***************************************************************************)
(* ScholarRAG: the query-to-answer pipeline of src/rag_pipeline/main.py.   *)
(*                                                                         *)
(* One invocation of process_query is modelled step by step (pc is the     *)
(* position inside the function).  The external collaborators (HTTP search *)
(* API, text splitter, embedder / vector store, retriever, language model) *)
(* are the environment: each of their calls either returns one of a small  *)
(* set of values or raises.                                                *)
(*                                                                         *)
(* Python strings whose content the code inspects (the user query) are     *)
(* sequences of one-character strings.  Strings the code only passes       *)
(* around (titles, abstracts, URLs, exception details) are atomic tokens.  *)
(* A string built by concatenation / join is the sequence of its parts.    *)
(*                                                                         *)
(* Spec follows one call of process_query per process.  SpecApp follows a  *)
(* session of src/app.py: several submissions in one process, the logging  *)
(* of src/database/connector.py and the feedback buttons.  SpecRefine,     *)
(* SpecNormalize and SpecSplit apply _refine_search_query, the record      *)
(* comprehension of search_semantic_scholar and the text splitter of       *)
(* build_vector_store to sets of inputs.                                   *)
(***************************************************************************)
EXTENDS Integers, Sequences, FiniteSets, TLC

(* ---------------------------- bounds ----------------------------------- *)
\* most papers in one search response
MaxPapers == 2
\* clock ticks per second
ClockHz == 2
\* most chunks the splitter yields for the papers of one search response
MaxDocs == 3
\* most ticks that pass between two consecutive clock observations
MaxLag == 1
\* most queries submitted in one session of the application
MaxSubmits == 2

(* ----------------------- src/config.py --------------------------------- *)
VECTOR_DB_SEARCH_NEIGHBORS == 4
CHUNK_SIZE == 1000
CHUNK_OVERLAP == 200
SEARCH_RETRY_ATTEMPTS == 3

(* ----------------------- Python values --------------------------------- *)
\* Python None
NONE == "<None>"
\* a key that is absent from a JSON object
Absent == "<absent>"
\* Python truthiness of a str-or-None value
Truthy(v) == v # NONE /\ v # ""

(* ----------------------- _refine_search_query -------------------------- *)
UpperToLower ==
    ("A" :> "a") @@ ("B" :> "b") @@ ("C" :> "c") @@ ("D" :> "d") @@
    ("E" :> "e") @@ ("F" :> "f") @@ ("G" :> "g") @@ ("H" :> "h") @@
    ("I" :> "i") @@ ("J" :> "j") @@ ("K" :> "k") @@ ("L" :> "l") @@
    ("M" :> "m") @@ ("N" :> "n") @@ ("O" :> "o") @@ ("P" :> "p") @@
    ("Q" :> "q") @@ ("R" :> "r") @@ ("S" :> "s") @@ ("T" :> "t") @@
    ("U" :> "u") @@ ("V" :> "v") @@ ("W" :> "w") @@ ("X" :> "x") @@
    ("Y" :> "y") @@ ("Z" :> "z")

\* lower() left out: the keywords are looked for in the query as typed
lower_Identity(s) == s

\* str.lower()
lower(s) ==
    [i \in 1..Len(s) |-> IF s[i] \in DOMAIN UpperToLower
                         THEN UpperToLower[s[i]] ELSE s[i]]

\* the Python operator  kw in s  on strings
Contains(kw, s) ==
    \E i \in 0..(Len(s) - Len(kw)) : SubSeq(s, i + 1, i + Len(kw)) = kw

definitional_keywords ==
    << <<"d", "e", "f", "i", "n", "i", "t", "i", "o", "n">>,
       <<"e", "x", "p", "l", "a", "n", "a", "t", "i", "o", "n">>,
       <<"k", "e", "y", " ", "c", "o", "n", "c", "e", "p", "t", "s">>,
       <<"i", "n", "t", "r", "o", "d", "u", "c", "t", "i", "o", "n", " ", "t", "o">>,
       <<"p", "r", "i", "n", "c", "i", "p", "l", "e", "s", " ", "o", "f">>,
       <<"o", "v", "e", "r", "v", "i", "e", "w", " ", "o", "f">>,
       <<"w", "h", "a", "t", " ", "i", "s">> >>

\* "papers about ": a prefix that holds no keyword
RefinePrefix_Plain ==
    <<"p", "a", "p", "e", "r", "s", " ", "a", "b", "o", "u", "t", " ">>

\* "explanation and key concepts of "
RefinePrefix ==
    <<"e", "x", "p", "l", "a", "n", "a", "t", "i", "o", "n", " ", "a", "n", "d",
      " ", "k", "e", "y", " ", "c", "o", "n", "c", "e", "p", "t", "s", " ", "o",
      "f", " ">>

refine_search_query(query) ==
    IF ~ \E k \in 1..Len(definitional_keywords) :
            Contains(definitional_keywords[k], lower(query))
    THEN RefinePrefix \o query
    ELSE query

(* ----------------------- inputs ---------------------------------------- *)
\* "RAG", "What Is RAG", "somewhat isolated"
Queries ==
    { <<"R", "A", "G">>,
      <<"W", "h", "a", "t", " ", "I", "s", " ", "R", "A", "G">>,
      <<"s", "o", "m", "e", "w", "h", "a", "t", " ", "i", "s", "o", "l", "a", "t", "e", "d">> }

(* ----------------------- inputs of _refine_search_query ---------------- *)
\* what a query starts with: nothing, "on "
QueryHeads ==
    { <<>>,
      <<"o", "n", " ">> }

\* the keywords in two spellings each, and strings that hold none:
\* "", "RAG", "definitio", "key  concepts", "whatis", "over view of",
\* "explain", "principle of", "introduction"
QueryMiddles ==
    { <<"d", "e", "f", "i", "n", "i", "t", "i", "o", "n">>,
      <<"D", "e", "f", "i", "n", "i", "t", "i", "o", "n">>,
      <<"e", "x", "p", "l", "a", "n", "a", "t", "i", "o", "n">>,
      <<"E", "X", "P", "L", "A", "N", "A", "T", "I", "O", "N">>,
      <<"k", "e", "y", " ", "c", "o", "n", "c", "e", "p", "t", "s">>,
      <<"K", "e", "y", " ", "C", "o", "n", "c", "e", "p", "t", "s">>,
      <<"i", "n", "t", "r", "o", "d", "u", "c", "t", "i", "o", "n", " ", "t", "o">>,
      <<"I", "n", "t", "r", "o", "d", "u", "c", "t", "i", "o", "n", " ", "T", "o">>,
      <<"p", "r", "i", "n", "c", "i", "p", "l", "e", "s", " ", "o", "f">>,
      <<"P", "R", "I", "N", "C", "I", "P", "L", "E", "S", " ", "O", "F">>,
      <<"o", "v", "e", "r", "v", "i", "e", "w", " ", "o", "f">>,
      <<"O", "v", "e", "r", "v", "i", "e", "w", " ", "O", "f">>,
      <<"w", "h", "a", "t", " ", "i", "s">>,
      <<"W", "h", "a", "t", " ", "I", "s">>,
      <<>>,
      <<"R", "A", "G">>,
      <<"d", "e", "f", "i", "n", "i", "t", "i", "o">>,
      <<"k", "e", "y", " ", " ", "c", "o", "n", "c", "e", "p", "t", "s">>,
      <<"w", "h", "a", "t", "i", "s">>,
      <<"o", "v", "e", "r", " ", "v", "i", "e", "w", " ", "o", "f">>,
      <<"e", "x", "p", "l", "a", "i", "n">>,
      <<"p", "r", "i", "n", "c", "i", "p", "l", "e", " ", "o", "f">>,
      <<"i", "n", "t", "r", "o", "d", "u", "c", "t", "i", "o", "n">> }

\* what a query ends with: nothing, " RAG"
QueryTails ==
    { <<>>,
      <<" ", "R", "A", "G">> }

RefineQueries ==
    { h \o m \o t : h \in QueryHeads, m \in QueryMiddles, t \in QueryTails }

\* os.getenv("SEMANTIC_SCHOLAR_API_KEY") as app.py passes it
ApiKeys == {NONE, "s2-key"}

\* os.getenv("GOOGLE_API_KEY"): unset, set to the empty string, set
GoogleKeys == {NONE, "", "g-key"}

\* details of the exceptions the collaborators raise
ExcDetails == {"boom", "quota exceeded"}

\* answers of the language model
LLMResponses == {"generated answer"}

(* ----------------------- search_semantic_scholar ----------------------- *)
Sentinel == "No abstract available."
\* an abstract of white space only
Blank == " "

\* objects of the "data" array of the search API's JSON body
RawPapers ==
    << [title |-> "T1",   abstract |-> "abs1", url |-> "u1"],
       [title |-> NONE,   abstract |-> "abs2", url |-> "u2"],
       [title |-> Absent, abstract |-> NONE,   url |-> Absent],
       [title |-> "T4",   abstract |-> "abs1", url |-> NONE],
       [title |-> "T5",   abstract |-> Blank,  url |-> "u2"] >>

\* the "data" arrays the API returns: up to the order of the papers, every
\* array of at most MaxPapers of these objects
SearchData ==
    UNION {{[i \in 1..n |-> RawPapers[f[i]]] :
              f \in {g \in [1..n -> 1..Len(RawPapers)] :
                        \A i \in 1..(n - 1) : g[i] <= g[i + 1]}} :
           n \in 0..MaxPapers}

\* objects of the "data" array with every shape of each field: the key
\* absent, null, the empty string, the sentinel itself, text
RawShapes ==
    { [title |-> t, abstract |-> a, url |-> u] :
        t \in {Absent, NONE, "T1"},
        a \in {Absent, NONE, "", Sentinel, Blank, "abs1"},
        u \in {Absent, "u1"} }

\* every "data" array of at most MaxPapers such objects
ShapedData ==
    UNION {[1..n -> RawShapes] : n \in 0..MaxPapers}

\* the ways one request fails: requests.get raises (network error, timeout),
\* raise_for_status raises (non-2xx), response.json() or the comprehension
\* raises (malformed body)
RequestFailures == {"ConnectionError", "Timeout", "HTTPError", "MalformedBody"}

\* dict.get(key, default)
Get(v, default) == IF v = Absent THEN default ELSE v

\* a if a is not None else b
Or_NoneOnly(a, b) == IF a # NONE THEN a ELSE b

\* a or b
Or(a, b) == IF Truthy(a) THEN a ELSE b

NormalizePaper(p) ==
    [title    |-> Get(p.title, "No title"),
     abstract |-> Or(Get(p.abstract, NONE), Sentinel),
     url      |-> Get(p.url, "No URL")]

Normalize(data) == [i \in 1..Len(data) |-> NormalizePaper(data[i])]

\* a loop that runs once too often
MoreAttempts_OffByOne(a) == a <= SEARCH_RETRY_ATTEMPTS

\* range(SEARCH_RETRY_ATTEMPTS) still has an element after a attempts
MoreAttempts(a) == a < SEARCH_RETRY_ATTEMPTS

(* ----------------------- build_vector_store ---------------------------- *)
\* the test of line 63 without its comparison with the sentinel
Indexable_AnyText(paper) == Truthy(paper.abstract)

\* the test of line 63
Indexable(paper) == Truthy(paper.abstract) /\ paper.abstract # Sentinel

\* numbers of chunks split_text may yield for an abstract
SplitCounts(abstract) == IF abstract = Blank THEN {0} ELSE 1..MaxDocs

Document(paper, j) ==
    [page_content |-> <<paper.abstract, j>>, metadata |-> [source |-> paper.url]]

\* the docs list after the loop of lines 62-66, paper i yielding n[i] chunks
RECURSIVE DocsFrom(_, _, _)
DocsFrom(ps, n, i) ==
    IF i > Len(ps) THEN <<>>
    ELSE (IF Indexable(ps[i])
          THEN [j \in 1..n[i] |-> Document(ps[i], j)]
          ELSE <<>>) \o DocsFrom(ps, n, i + 1)

\* the chunk counts the splitter may produce for the papers
ChunkCounts(ps) ==
    {n \in [1..Len(ps) -> 0..MaxDocs] :
        \A i \in 1..Len(ps) :
            IF Indexable(ps[i]) THEN n[i] \in SplitCounts(ps[i].abstract)
            ELSE n[i] = 0}

\* the chunk counts explored: at most MaxDocs chunks in all
BoundedChunkCounts(ps) ==
    {n \in ChunkCounts(ps) : Len(DocsFrom(ps, n, 1)) <= MaxDocs}

NoAbstractsDetail == "No valid abstracts found in search results to build a knowledge base."

(* ----------------------- process_query --------------------------------- *)
\* metrics of line 78
InitialMetrics == [sources_found |-> 0, docs_retrieved |-> 0, is_error |-> FALSE]

\* metrics[key] = value, adding the key when the dict lacks it
SetItem(m, key, value) ==
    [k \in (DOMAIN m) \cup {key} |-> IF k = key THEN value ELSE m[k]]

\* a test for None only: an empty value counts as configured
CredentialConfigured_NoneOnly(g) == g # NONE

\* the test of line 80
CredentialConfigured(g) == Truthy(g)

\* a count that is never taken
SourcesFound_Unset(ps) == 0

\* len(papers) of line 92
SourcesFound(ps) == Len(ps)

\* the test of line 94
NoPapersFound(ps) == ps = <<>>

\* a test that never ends the run
NothingRetrieved_Never(rd) == FALSE

\* the test of line 104
NothingRetrieved(rd) == rd = <<>>

CredentialAnswer == <<"Error: GOOGLE_API_KEY is not configured.">>
NoPapersAnswer == <<"I could not find any relevant academic papers for this query.">>
NoAnswerAnswer == <<"Could not find a specific answer in the retrieved papers.">>

\* the dict of line 82
CredentialResult(m) == [answer |-> CredentialAnswer, sources |-> <<>>, metrics |-> m]
\* a "no papers" result flagged as an error
NoPapersResult_Flagged(m) ==
    [answer |-> NoPapersAnswer, sources |-> <<>>,
     metrics |-> [k \in DOMAIN m |-> IF k = "is_error" THEN TRUE ELSE m[k]]]

\* the dict of line 95
NoPapersResult(m) == [answer |-> NoPapersAnswer, sources |-> <<>>, metrics |-> m]
\* a "no answer" result flagged as an error
NoAnswerResult_Flagged(m) ==
    [answer |-> NoAnswerAnswer, sources |-> <<>>,
     metrics |-> SetItem(m, "is_error", TRUE)]

\* the dict of line 105
NoAnswerResult(m) == [answer |-> NoAnswerAnswer, sources |-> <<>>, metrics |-> m]

\* int((time.time() - start_time) * 1000)
ElapsedMs(now, start) == ((now - start) * 1000) \div ClockHz

\* a handler whose answer leaves the exception out
ErrorResult_NoDetail(m, e, now, start) ==
    [answer  |-> <<"An error occurred.">>,
     sources |-> <<>>,
     metrics |-> SetItem(SetItem(m, "is_error", TRUE),
                         "response_time_ms", ElapsedMs(now, start))]

\* the handler of lines 138-141
ErrorResult(m, e, now, start) ==
    [answer  |-> <<"An error occurred: ", e>>,
     sources |-> <<>>,
     metrics |-> SetItem(SetItem(m, "is_error", TRUE),
                         "response_time_ms", ElapsedMs(now, start))]

\* set(doc.metadata['source'] for doc in retrieved_docs)
SourceSet(docs) == {docs[i].metadata.source : i \in 1..Len(docs)}

\* the orders in which "\n".join may lay out a set: sequences holding each
\* element once
Joins(S) ==
    {s \in [1..Cardinality(S) -> S] : \A x \in S : \E i \in DOMAIN s : s[i] = x}

\* a list of sources, one per retrieved document
Sources_List(rd) == {[i \in 1..Len(rd) |-> rd[i].metadata.source]}

\* the values "\n".join(sources) may take (lines 129 and 134)
Sources(rd) == Joins(SourceSet(rd))

\* the dict of lines 132-136
SuccessResult(response, srcs, m) ==
    [answer |-> <<response>>, sources |-> srcs, metrics |-> m]

\* retrieval with the refined query
RetrievalQuery_Refined(query, refined) == refined

\* the query handed to retriever.invoke (line 101)
RetrievalQuery(query, refined) == query
\* the question handed to the chain (line 127)
QuestionQuery(query, refined) == query
\* the query handed to search_semantic_scholar
SearchQuery(query, refined) == refined

NoResult == [none |-> TRUE]

\* what retriever.invoke may return: at most k of the indexed documents
RECURSIVE Pick(_, _)
Pick(s, I) ==
    IF I = {} THEN <<>>
    ELSE LET m == CHOOSE x \in I : \A y \in I : x <= y
         IN  <<s[m]>> \o Pick(s, I \ {m})

Retrievable(store, k) ==
    {Pick(store, I) : I \in {J \in SUBSET (1..Len(store)) : Cardinality(J) <= k}}

(* ----------------------- the splitter of lines 56-60 ------------------- *)
\* RecursiveCharacterTextSplitter(chunk_size, chunk_overlap, separators) of
\* langchain, with its defaults: keep_separator = True, the separators are
\* taken literally, length is len, chunks are stripped of white space.
\* Texts are sequences of characters.

\* separators of line 59: "\n\n", "\n", ". ", ", ", " "
separators ==
    << <<"\n", "\n">>, <<"\n">>, <<".", " ">>, <<",", " ">>, <<" ">> >>

Least(S) == CHOOSE x \in S : \A y \in S : x <= y
Greatest(S) == CHOOSE x \in S : \A y \in S : x >= y

\* the places where re.split finds sep in text, from left to right and
\* without overlap, starting at position from
RECURSIVE MatchStarts(_, _, _)
MatchStarts(sep, text, from) ==
    LET hits == {i \in from..(Len(text) - Len(sep) + 1) :
                    SubSeq(text, i, i + Len(sep) - 1) = sep}
    IN  IF hits = {} THEN <<>>
        ELSE <<Least(hits)>> \o MatchStarts(sep, text, Least(hits) + Len(sep))

\* _split_text_with_regex with keep_separator: the text is cut before every
\* match, so each piece but the first starts with the separator; empty
\* pieces are dropped
split_text_with_regex(text, sep) ==
    LET cuts == <<1>> \o MatchStarts(sep, text, 1) \o <<Len(text) + 1>>
        parts == [j \in 1..(Len(cuts) - 1) |->
                     SubSeq(text, cuts[j], cuts[j + 1] - 1)]
    IN  SelectSeq(parts, LAMBDA part : part # <<>>)

RECURSIVE Concat(_)
Concat(parts) ==
    IF parts = <<>> THEN <<>> ELSE Head(parts) \o Concat(Tail(parts))

\* str.strip()
strip(text) ==
    LET inked == {i \in 1..Len(text) : text[i] \notin {" ", "\n", "\t", "\r"}}
    IN  IF inked = {} THEN <<>>
        ELSE SubSeq(text, Least(inked), Greatest(inked))

\* _join_docs with the separator "": the chunk made of the pieces, or no
\* chunk when nothing but white space is left
join_docs(parts) ==
    LET text == strip(Concat(parts))
    IN  IF text = <<>> THEN <<>> ELSE <<text>>

\* the while loop of _merge_splits: pieces are dropped from the front of
\* current_doc until what stays is the overlap and the next piece fits
RECURSIVE PopFront(_, _, _)
PopFront(current_doc, total, len) ==
    IF total > CHUNK_OVERLAP \/ (total + len > CHUNK_SIZE /\ total > 0)
    THEN PopFront(Tail(current_doc), total - Len(Head(current_doc)), len)
    ELSE [current_doc |-> current_doc, total |-> total]

\* the for loop of _merge_splits from piece i on
RECURSIVE MergeFrom(_, _, _, _, _)
MergeFrom(splits, i, chunks, current_doc, total) ==
    IF i > Len(splits) THEN chunks \o join_docs(current_doc)
    ELSE LET d == splits[i]
         IN  IF total + Len(d) > CHUNK_SIZE /\ current_doc # <<>>
             THEN LET kept == PopFront(current_doc, total, Len(d))
                  IN  MergeFrom(splits, i + 1, chunks \o join_docs(current_doc),
                                Append(kept.current_doc, d), kept.total + Len(d))
             ELSE MergeFrom(splits, i + 1, chunks, Append(current_doc, d),
                            total + Len(d))

\* _merge_splits: pieces shorter than the chunk size are packed into chunks
merge_splits(splits) == MergeFrom(splits, 1, <<>>, <<>>, 0)

\* _split_text: the first separator of seps that occurs in the text cuts it
\* (the last one if none occurs); pieces shorter than the chunk size are
\* merged; a longer piece is split with the separators that are left, and
\* becomes a chunk as it is when none is left
RECURSIVE split_text_with(_, _), SplitFrom(_, _, _, _, _)
split_text_with(text, seps) ==
    LET found == {k \in 1..Len(seps) : Contains(seps[k], text)}
        k == IF found = {} THEN Len(seps) ELSE Least(found)
        new_separators ==
            IF found = {} THEN <<>> ELSE SubSeq(seps, k + 1, Len(seps))
    IN  SplitFrom(split_text_with_regex(text, seps[k]), 1, <<>>, <<>>,
                  new_separators)

\* the for loop of _split_text from piece i on
SplitFrom(splits, i, final_chunks, good_splits, new_separators) ==
    LET merged == IF good_splits = <<>> THEN <<>> ELSE merge_splits(good_splits)
    IN  IF i > Len(splits) THEN final_chunks \o merged
        ELSE IF Len(splits[i]) < CHUNK_SIZE
        THEN SplitFrom(splits, i + 1, final_chunks,
                       Append(good_splits, splits[i]), new_separators)
        ELSE SplitFrom(splits, i + 1,
                       final_chunks \o merged \o
                           (IF new_separators = <<>> THEN <<splits[i]>>
                            ELSE split_text_with(splits[i], new_separators)),
                       <<>>, new_separators)

\* splitter.split_text(abstract) of line 64
split_text(text) == split_text_with(text, separators)

\* n times the character c
Run(c, n) == [i \in 1..n |-> c]

\* lengths of the runs abstracts are made of
RunLengths ==
    {1, CHUNK_OVERLAP, CHUNK_SIZE - 1, CHUNK_SIZE, CHUNK_SIZE + 1}

\* what stands between two runs: nothing or one of the separators
Joints == {<<>>} \cup {separators[k] : k \in 1..Len(separators)}

\* abstracts: two runs of letters with a joint between them, and three runs
\* with the same joint twice
AbstractTexts ==
    {Run("a", m) \o j \o Run("b", n) :
        m \in RunLengths, j \in Joints, n \in RunLengths}
    \cup
    {Run("a", m) \o j \o Run("b", m) \o j \o Run("c", n) :
        m \in {CHUNK_OVERLAP, 2 * CHUNK_OVERLAP}, j \in Joints,
        n \in {CHUNK_OVERLAP, 2 * CHUNK_OVERLAP}}

(* ----------------------- src/database/connector.py --------------------- *)
\* required_keys of lines 70-73
required_keys ==
    {"query", "answer", "sources", "response_time_ms", "sources_found",
     "docs_retrieved", "is_error", "feedback_score"}

\* a loop that adds nothing to the dict
SetDefaults_Skipped(d) == d

\* lines 74-75: log_data.setdefault(key, None) for every required key
SetDefaults(d) ==
    [k \in (DOMAIN d) \cup required_keys |-> IF k \in DOMAIN d THEN d[k] ELSE NONE]

\* str(KeyError(key)) for the key cur.execute misses first in the mapping
KeyErrorDetail == "'response_time_ms'"

\* lines 78-91: the row the INSERT makes of the named parameters; id is the
\* SERIAL the table assigns, ts is datetime.now() as the number of the
\* submission under way
InsertedRow(d, id, ts) ==
    [k \in required_keys \cup {"id", "timestamp"} |->
        IF k = "id" THEN id ELSE IF k = "timestamp" THEN ts ELSE d[k]]

\* line 105: UPDATE rag_monitoring SET feedback_score = score WHERE id = id
UpdatedTable(t, id, score) ==
    [i \in 1..Len(t) |->
        IF t[i].id = id THEN [t[i] EXCEPT !.feedback_score = score] ELSE t[i]]

(* ----------------------- src/app.py ------------------------------------ *)
\* lines 38-49: the dict made of the response; the keys of metrics come last
LogData(q, r) ==
    r.metrics @@
    [query |-> q, answer |-> r.answer, sources |-> r.sources,
     feedback_score |-> NONE]

\* lines 63-72
ErrorLogData(q, e) ==
    [query |-> q, answer |-> <<"CRITICAL ERROR: ", e>>, sources |-> <<>>,
     response_time_ms |-> -1, sources_found |-> 0, docs_retrieved |-> 0,
     is_error |-> TRUE, feedback_score |-> NONE]

\* the buttons of lines 82 and 89
FeedbackScores == {1, -1}

(* ----------------------- state ----------------------------------------- *)
VARIABLES
    pc,             \* position inside process_query; "idle" between calls
    query,          \* argument query
    api_key,        \* argument api_key
    google_key,     \* os.getenv("GOOGLE_API_KEY")
    clock,          \* time.time(), in ticks
    start_time,     \* local start_time
    metrics,        \* local metrics (a dict: its domain is its key set)
    refined_query,  \* local refined_query
    attempt,        \* requests issued by search_semantic_scholar
    responses,      \* outcome of each request, in order
    data,           \* "data" array of the successful response
    papers,         \* local papers
    docs,           \* local docs of build_vector_store
    db,             \* documents held by the vector store
    retrieved_docs, \* local retrieved_docs
    calls,          \* stages entered and external calls made, in order
    gave_up,        \* search_semantic_scholar returned at line 51
    exc,            \* detail of the exception raised in this invocation
    result,         \* the returned dict
    collection,     \* documents of the process-wide Chroma collection
    table,          \* rows of rag_monitoring, in insertion order
    last_interaction_id, \* st.session_state.last_interaction_id
    feedback_given, \* st.session_state.feedback_given
    updates,        \* ids that update_feedback has written to, in order
    submits         \* queries submitted in this session

vars == <<pc, query, api_key, google_key, clock, start_time, metrics,
          refined_query, attempt, responses, data, papers, docs, db,
          retrieved_docs, calls, gave_up, exc, result, collection, table,
          last_interaction_id, feedback_given, updates, submits>>

\* the state of the presentation layer and of its database
app == <<table, last_interaction_id, feedback_given, updates, submits>>

\* last_interaction_id is None (ids of rag_monitoring start at 1)
NoId == 0

NoExc == "<no exception>"

Call_(op, arg) == [op |-> op, arg |-> arg]

Init ==
    /\ pc = "idle"
    /\ query = <<>>
    /\ api_key = NONE
    /\ google_key = NONE
    /\ clock = 0
    /\ start_time = 0
    /\ metrics = InitialMetrics
    /\ refined_query = <<>>
    /\ attempt = 0
    /\ responses = <<>>
    /\ data = <<>>
    /\ papers = <<>>
    /\ docs = <<>>
    /\ db = <<>>
    /\ retrieved_docs = <<>>
    /\ calls = <<>>
    /\ gave_up = FALSE
    /\ exc = NoExc
    /\ result = NoResult
    /\ collection = <<>>
    /\ table = <<>>
    /\ last_interaction_id = NoId
    /\ feedback_given = FALSE
    /\ updates = <<>>
    /\ submits = 0

(* ----------------------- process_query, step by step ------------------- *)
\* lines 75-78: entry
Enter(q, k, g) ==
    /\ pc = "idle"
    /\ pc' = "check_credential"
    /\ query' = q
    /\ api_key' = k
    /\ google_key' = g
    /\ clock' = 0
    /\ start_time' = 0
    /\ metrics' = InitialMetrics
    /\ refined_query' = <<>>
    /\ attempt' = 0
    /\ responses' = <<>>
    /\ data' = <<>>
    /\ papers' = <<>>
    /\ docs' = <<>>
    /\ db' = <<>>
    /\ retrieved_docs' = <<>>
    /\ calls' = <<>>
    /\ gave_up' = FALSE
    /\ exc' = NoExc
    /\ result' = NoResult

\* process_query is called
Call(q, k, g) ==
    /\ Enter(q, k, g)
    /\ UNCHANGED <<collection, app>>

\* lines 80-82
CheckCredential ==
    /\ pc = "check_credential"
    /\ IF ~ CredentialConfigured(google_key)
       THEN /\ metrics' = SetItem(metrics, "is_error", TRUE)
            /\ result' = CredentialResult(metrics')
            /\ pc' = "done"
       ELSE /\ pc' = "create_llm"
            /\ UNCHANGED <<metrics, result>>
    /\ UNCHANGED <<query, api_key, google_key, clock, start_time,
                   refined_query, attempt, responses, data, papers, docs, db,
                   retrieved_docs, calls, gave_up, exc>>
    /\ UNCHANGED <<collection, app>>

\* line 85: the client is constructed
CreateLLM ==
    /\ pc = "create_llm"
    /\ pc' = "refine"
    /\ UNCHANGED <<query, api_key, google_key, clock, start_time, metrics,
                   refined_query, attempt, responses, data, papers, docs, db,
                   retrieved_docs, calls, gave_up, exc, result>>
    /\ UNCHANGED <<collection, app>>

\* line 85: the constructor raises; the statement is outside the try block
CreateLLMRaises(e) ==
    /\ pc = "create_llm"
    /\ pc' = "raised"
    /\ exc' = e
    /\ UNCHANGED <<query, api_key, google_key, clock, start_time, metrics,
                   refined_query, attempt, responses, data, papers, docs, db,
                   retrieved_docs, calls, gave_up, result>>
    /\ UNCHANGED <<collection, app>>

\* line 88
Refine ==
    /\ pc = "refine"
    /\ refined_query' = refine_search_query(query)
    /\ calls' = Append(calls, Call_("refine", query))
    /\ pc' = "search"
    /\ UNCHANGED <<query, api_key, google_key, clock, start_time, metrics,
                   attempt, responses, data, papers, docs, db,
                   retrieved_docs, gave_up, exc, result>>
    /\ UNCHANGED <<collection, app>>

\* line 91 and lines 41-42: search_semantic_scholar is entered
Search ==
    /\ pc = "search"
    /\ calls' = Append(calls, Call_("search", SearchQuery(query, refined_query)))
    /\ attempt' = 0
    /\ responses' = <<>>
    /\ pc' = "request"
    /\ UNCHANGED <<query, api_key, google_key, clock, start_time, metrics,
                   refined_query, data, papers, docs, db, retrieved_docs,
                   gave_up, exc, result>>
    /\ UNCHANGED <<collection, app>>

\* lines 43-50: one request that fails; the handler sleeps 2 seconds
RequestFails(f) ==
    /\ pc = "request"
    /\ MoreAttempts(attempt)
    /\ attempt' = attempt + 1
    /\ calls' = Append(calls, Call_("http", calls[Len(calls)].arg))
    /\ responses' = Append(responses, f)
    /\ clock' = clock + 2 * ClockHz
    /\ UNCHANGED <<pc, query, api_key, google_key, start_time, metrics,
                   refined_query, data, papers, docs, db, retrieved_docs,
                   gave_up, exc, result>>
    /\ UNCHANGED <<collection, app>>

\* lines 43-48: one request that succeeds; the function returns
RequestSucceeds(d) ==
    /\ pc = "request"
    /\ MoreAttempts(attempt)
    /\ attempt' = attempt + 1
    /\ calls' = Append(calls, Call_("http", calls[Len(calls)].arg))
    /\ responses' = Append(responses, "ok")
    /\ data' = d
    /\ papers' = Normalize(d)
    /\ pc' = "searched"
    /\ UNCHANGED <<query, api_key, google_key, clock, start_time, metrics,
                   refined_query, docs, db, retrieved_docs, gave_up, exc, result>>
    /\ UNCHANGED <<collection, app>>

\* line 51: the loop is exhausted
SearchGivesUp ==
    /\ pc = "request"
    /\ ~ MoreAttempts(attempt)
    /\ papers' = <<>>
    /\ gave_up' = TRUE
    /\ pc' = "searched"
    /\ UNCHANGED <<query, api_key, google_key, clock, start_time, metrics,
                   refined_query, attempt, responses, data, docs, db,
                   retrieved_docs, calls, exc, result>>
    /\ UNCHANGED <<collection, app>>

\* lines 92-95; the locals of search_semantic_scholar are gone
AfterSearch ==
    /\ pc = "searched"
    /\ attempt' = 0
    /\ responses' = <<>>
    /\ metrics' = SetItem(metrics, "sources_found", SourcesFound(papers))
    /\ IF NoPapersFound(papers)
       THEN /\ result' = NoPapersResult(metrics')
            /\ pc' = "done"
       ELSE /\ pc' = "build"
            /\ UNCHANGED result
    /\ UNCHANGED <<query, api_key, google_key, clock, start_time,
                   refined_query, data, papers, docs, db,
                   retrieved_docs, calls, gave_up, exc>>
    /\ UNCHANGED <<collection, app>>

\* lines 138-141: the except clause, entered with exception detail e
Handle(e, now) ==
    /\ now \in clock..(clock + MaxLag)
    /\ clock' = now
    /\ exc' = e
    /\ metrics' = ErrorResult(metrics, e, now, start_time).metrics
    /\ result' = ErrorResult(metrics, e, now, start_time)
    /\ pc' = "done"

\* lines 98 and 55-69: the abstracts are split; no chunk raises ValueError
Build(n) ==
    /\ pc = "build"
    /\ n \in BoundedChunkCounts(papers)
    /\ calls' = Append(calls, Call_("build", <<>>))
    /\ docs' = DocsFrom(papers, n, 1)
    /\ IF docs' = <<>>
       THEN \E now \in clock..(clock + MaxLag) : Handle(NoAbstractsDetail, now)
       ELSE /\ pc' = "embed"
            /\ UNCHANGED <<clock, exc, metrics, result>>
    /\ UNCHANGED <<query, api_key, google_key, start_time, refined_query,
                   attempt, responses, data, papers, db, retrieved_docs,
                   gave_up>>
    /\ UNCHANGED <<collection, app>>

\* lines 71-73: the chunks are embedded and added to the collection.  The
\* store is made without a client, a directory or a collection name, so it
\* is the collection "langchain" of the in-memory client that every Chroma
\* object of the process shares; nothing in the code empties it
Embed ==
    /\ pc = "embed"
    /\ calls' = Append(calls, Call_("embed", <<>>))
    /\ collection' = collection \o docs
    /\ db' = collection'
    /\ pc' = "retrieve"
    /\ UNCHANGED app
    /\ UNCHANGED <<query, api_key, google_key, clock, start_time, metrics,
                   refined_query, attempt, responses, data, papers, docs,
                   retrieved_docs, gave_up, exc, result>>

\* lines 71-73: the embedder or the store raises
EmbedRaises(e) ==
    /\ pc = "embed"
    /\ calls' = Append(calls, Call_("embed", <<>>))
    /\ \E now \in clock..(clock + MaxLag) : Handle(e, now)
    /\ UNCHANGED <<query, api_key, google_key, start_time, refined_query,
                   attempt, responses, data, papers, docs, db, retrieved_docs,
                   gave_up>>
    /\ UNCHANGED <<collection, app>>

\* lines 99-105
Retrieve(sel) ==
    /\ pc = "retrieve"
    /\ sel \in Retrievable(db, VECTOR_DB_SEARCH_NEIGHBORS)
    /\ calls' = Append(calls, Call_("retrieve", RetrievalQuery(query, refined_query)))
    /\ retrieved_docs' = sel
    /\ metrics' = SetItem(metrics, "docs_retrieved", Len(sel))
    /\ IF NothingRetrieved(sel)
       THEN /\ result' = NoAnswerResult(metrics')
            /\ pc' = "done"
       ELSE /\ pc' = "synthesize"
            /\ UNCHANGED result
    /\ UNCHANGED <<query, api_key, google_key, clock, start_time,
                   refined_query, attempt, responses, data, papers, docs, db,
                   gave_up, exc>>
    /\ UNCHANGED <<collection, app>>

\* lines 99-101: the retriever raises
RetrieveRaises(e) ==
    /\ pc = "retrieve"
    /\ calls' = Append(calls, Call_("retrieve", RetrievalQuery(query, refined_query)))
    /\ \E now \in clock..(clock + MaxLag) : Handle(e, now)
    /\ UNCHANGED <<query, api_key, google_key, start_time, refined_query,
                   attempt, responses, data, papers, docs, db, retrieved_docs,
                   gave_up>>
    /\ UNCHANGED <<collection, app>>

JoinTypeError == "sequence item 0: expected str instance, NoneType found"

\* lines 124-136: the chain answers; "\n".join raises TypeError on a None
\* source, which the except clause handles
Synthesize(r) ==
    /\ pc = "synthesize"
    /\ calls' = Append(calls, Call_("llm", QuestionQuery(query, refined_query)))
    /\ IF NONE \in SourceSet(retrieved_docs)
       THEN \E now \in clock..(clock + MaxLag) : Handle(JoinTypeError, now)
       ELSE \E now \in clock..(clock + MaxLag), srcs \in Sources(retrieved_docs) :
              /\ clock' = now
              /\ metrics' = SetItem(metrics, "response_time_ms",
                                    ElapsedMs(now, start_time))
              /\ result' = SuccessResult(r, srcs, metrics')
              /\ pc' = "done"
              /\ UNCHANGED exc
    /\ UNCHANGED <<query, api_key, google_key, start_time, refined_query,
                   attempt, responses, data, papers, docs, db, retrieved_docs,
                   gave_up>>
    /\ UNCHANGED <<collection, app>>

\* lines 126-127: the language-model call raises
SynthesizeRaises(e) ==
    /\ pc = "synthesize"
    /\ calls' = Append(calls, Call_("llm", QuestionQuery(query, refined_query)))
    /\ \E now \in clock..(clock + MaxLag) : Handle(e, now)
    /\ UNCHANGED <<query, api_key, google_key, start_time, refined_query,
                   attempt, responses, data, papers, docs, db, retrieved_docs,
                   gave_up>>
    /\ UNCHANGED <<collection, app>>

\* process_query is left, by return or by the exception: its locals are gone
Leave ==
    /\ pc \in {"done", "raised"}
    /\ pc' = "idle"
    /\ query' = <<>>
    /\ api_key' = NONE
    /\ google_key' = NONE
    /\ clock' = 0
    /\ start_time' = 0
    /\ metrics' = InitialMetrics
    /\ refined_query' = <<>>
    /\ attempt' = 0
    /\ responses' = <<>>
    /\ data' = <<>>
    /\ papers' = <<>>
    /\ docs' = <<>>
    /\ db' = <<>>
    /\ retrieved_docs' = <<>>
    /\ calls' = <<>>
    /\ gave_up' = FALSE
    /\ exc' = NoExc
    /\ result' = NoResult

\* process_query is left and the process ends: Spec follows processes that
\* serve one call
Return ==
    /\ Leave
    /\ collection' = <<>>
    /\ UNCHANGED app

Next ==
    \/ \E q \in Queries, k \in ApiKeys, g \in GoogleKeys : Call(q, k, g)
    \/ CheckCredential
    \/ CreateLLM
    \/ \E e \in ExcDetails : CreateLLMRaises(e)
    \/ Refine
    \/ Search
    \/ \E f \in RequestFailures : RequestFails(f)
    \/ pc = "request" /\ \E d \in SearchData : RequestSucceeds(d)
    \/ SearchGivesUp
    \/ AfterSearch
    \/ pc = "build" /\ \E n \in BoundedChunkCounts(papers) : Build(n)
    \/ Embed
    \/ \E e \in ExcDetails : EmbedRaises(e)
    \/ pc = "retrieve" /\
          \E sel \in Retrievable(db, VECTOR_DB_SEARCH_NEIGHBORS) : Retrieve(sel)
    \/ \E e \in ExcDetails : RetrieveRaises(e)
    \/ \E r \in LLMResponses : Synthesize(r)
    \/ \E e \in ExcDetails : SynthesizeRaises(e)
    \/ Return

Spec == Init /\ [][Next]_vars

(* ----------------------- the pure functions on their own --------------- *)
\* every variable but pc, query, data and papers is as after start-up
AtRest ==
    /\ api_key = NONE
    /\ google_key = NONE
    /\ clock = 0
    /\ start_time = 0
    /\ metrics = InitialMetrics
    /\ refined_query = <<>>
    /\ attempt = 0
    /\ responses = <<>>
    /\ docs = <<>>
    /\ db = <<>>
    /\ retrieved_docs = <<>>
    /\ calls = <<>>
    /\ gave_up = FALSE
    /\ exc = NoExc
    /\ result = NoResult
    /\ collection = <<>>
    /\ table = <<>>
    /\ last_interaction_id = NoId
    /\ feedback_given = FALSE
    /\ updates = <<>>
    /\ submits = 0

\* _refine_search_query is about to be applied to some query
InitRefine ==
    /\ pc = "fresh"
    /\ query \in RefineQueries
    /\ data = <<>>
    /\ papers = <<>>
    /\ AtRest

\* lines 22-37: refined_query = _refine_search_query(query)
RefineOnce ==
    /\ pc = "fresh"
    /\ refined_query' = refine_search_query(query)
    /\ pc' = "refined"
    /\ UNCHANGED <<query, api_key, google_key, clock, start_time, metrics,
                   attempt, responses, data, papers, docs, db, retrieved_docs,
                   calls, gave_up, exc, result, collection, app>>

\* lines 22-37: the function is applied to its own output; calls records
\* what it returns
RefineAgain ==
    /\ pc = "refined"
    /\ calls' = <<Call_("refine", refine_search_query(refined_query))>>
    /\ pc' = "refined twice"
    /\ UNCHANGED <<query, api_key, google_key, clock, start_time, metrics,
                   refined_query, attempt, responses, data, papers, docs, db,
                   retrieved_docs, gave_up, exc, result, collection, app>>

\* the comprehension of line 48 is about to be applied to some "data" array
InitNormalize ==
    /\ pc = "raw"
    /\ query = <<>>
    /\ data \in ShapedData
    /\ papers = <<>>
    /\ AtRest

\* lines 47-48: the paper records are made from the "data" array
NormalizeData ==
    /\ pc = "raw"
    /\ papers' = Normalize(data)
    /\ pc' = "normalized"
    /\ UNCHANGED <<query, api_key, google_key, clock, start_time, metrics,
                   refined_query, attempt, responses, data, docs, db,
                   retrieved_docs, calls, gave_up, exc, result, collection,
                   app>>

\* lines 62-63: the loop of build_vector_store looks at the records
FilterPapers ==
    /\ pc = "normalized"
    /\ docs' = DocsFrom(papers, [i \in 1..Len(papers) |-> 1], 1)
    /\ pc' = "filtered"
    /\ UNCHANGED <<query, api_key, google_key, clock, start_time, metrics,
                   refined_query, attempt, responses, data, papers, db,
                   retrieved_docs, calls, gave_up, exc, result, collection,
                   app>>

NextNormalize ==
    \/ NormalizeData
    \/ FilterPapers

SpecNormalize == InitNormalize /\ [][NextNormalize]_vars

(* ----------------------- one session of the application ---------------- *)
\* the id the table gives its next row
NextId == Len(table) + 1

\* app.py lines 30-35: a query is submitted and process_query is called
Submit(q, k, g) ==
    /\ submits < MaxSubmits
    /\ Enter(q, k, g)
    /\ feedback_given' = FALSE
    /\ submits' = submits + 1
    /\ UNCHANGED <<collection, table, last_interaction_id, updates>>

\* app.py lines 36-51 and connector.py lines 62-98: process_query has
\* returned and the interaction is logged.  ok: the connection is made and
\* the INSERT succeeds; otherwise log_interaction returns None.  A key that
\* the mapping lacks makes cur.execute raise KeyError, which only the except
\* clause of app.py line 60 catches
LogResult(ok) ==
    /\ pc = "done"
    /\ LET d == SetDefaults(LogData(query, result))
       IN  IF ~ ok
           THEN /\ table' = table
                /\ last_interaction_id' = NoId
           ELSE IF required_keys \subseteq DOMAIN d
                THEN /\ table' = Append(table, InsertedRow(d, NextId, submits))
                     /\ last_interaction_id' = NextId
                ELSE /\ table' = Append(table,
                             InsertedRow(SetDefaults(ErrorLogData(query, KeyErrorDetail)),
                                         NextId, submits))
                     /\ UNCHANGED last_interaction_id
    /\ Leave
    /\ UNCHANGED <<collection, feedback_given, updates, submits>>

\* app.py lines 60-73: process_query has raised and the failure is logged;
\* last_interaction_id is not assigned
LogFailure(ok) ==
    /\ pc = "raised"
    /\ table' = IF ok
                THEN Append(table,
                            InsertedRow(SetDefaults(ErrorLogData(query, exc)),
                                        NextId, submits))
                ELSE table
    /\ Leave
    /\ UNCHANGED <<collection, last_interaction_id, feedback_given, updates,
                   submits>>

\* app.py lines 75-93 and connector.py lines 100-114: a feedback button is
\* shown and clicked.  ok: the connection is made and the UPDATE succeeds
Feedback(score, ok) ==
    /\ pc = "idle"
    /\ last_interaction_id # NoId
    /\ ~ feedback_given
    /\ IF ok
       THEN /\ table' = UpdatedTable(table, last_interaction_id, score)
            /\ updates' = Append(updates, [id |-> last_interaction_id,
                                           at |-> submits])
       ELSE UNCHANGED <<table, updates>>
    /\ feedback_given' = TRUE
    /\ UNCHANGED <<pc, query, api_key, google_key, clock, start_time, metrics,
                   refined_query, attempt, responses, data, papers, docs, db,
                   retrieved_docs, calls, gave_up, exc, result, collection,
                   last_interaction_id, submits>>

\* the query typed in every submission: "RAG"
AppQuery == <<"R", "A", "G">>

\* the search responses of the session: no paper, one paper with an
\* abstract, another such paper, one paper without abstract
AppData ==
    {<<>>, <<RawPapers[1]>>, <<RawPapers[2]>>, <<RawPapers[3]>>}

\* every abstract that is split yields one chunk
AppChunkCounts(ps) ==
    {n \in BoundedChunkCounts(ps) : \A i \in 1..Len(ps) : n[i] <= 1}

\* the application serves one session in one process; every request to the
\* search API is answered, and of the collaborators only the constructor of
\* the client raises
NextApp ==
    \/ \E g \in {NONE, "g-key"} : Submit(AppQuery, "s2-key", g)
    \/ CheckCredential
    \/ CreateLLM
    \/ CreateLLMRaises("boom")
    \/ Refine
    \/ Search
    \/ pc = "request" /\ \E d \in AppData : RequestSucceeds(d)
    \/ AfterSearch
    \/ pc = "build" /\ \E n \in AppChunkCounts(papers) : Build(n)
    \/ Embed
    \/ pc = "retrieve" /\
          \E sel \in Retrievable(db, VECTOR_DB_SEARCH_NEIGHBORS) : Retrieve(sel)
    \/ \E r \in LLMResponses : Synthesize(r)
    \/ \E ok \in BOOLEAN : LogResult(ok)
    \/ \E ok \in BOOLEAN : LogFailure(ok)
    \/ \E score \in FeedbackScores, ok \in BOOLEAN : Feedback(score, ok)

SpecApp == Init /\ [][NextApp]_vars

\* build_vector_store is about to be given one paper with some abstract
InitSplit ==
    /\ pc = "unsplit"
    /\ query = <<>>
    /\ data = <<>>
    /\ \E text \in AbstractTexts :
          papers = <<[title |-> "T1", abstract |-> text, url |-> "u1"]>>
    /\ AtRest

\* lines 62-66 for a paper that has an abstract
SplitAbstract ==
    /\ pc = "unsplit"
    /\ docs' = LET chunks == split_text(papers[1].abstract)
               IN  [j \in 1..Len(chunks) |->
                       [page_content |-> chunks[j],
                        metadata |-> [source |-> papers[1].url]]]
    /\ pc' = "split"
    /\ UNCHANGED <<query, api_key, google_key, clock, start_time, metrics,
                   refined_query, attempt, responses, data, papers, db,
                   retrieved_docs, calls, gave_up, exc, result, collection,
                   app>>

NextSplit == SplitAbstract

SpecSplit == InitSplit /\ [][NextSplit]_vars

NextRefine ==
    \/ RefineOnce
    \/ RefineAgain

SpecRefine == InitRefine /\ [][NextRefine]_vars

(* ----------------------- properties ------------------------------------ *)
\* the stage or call op has been entered in this invocation
Started(op) == \E i \in 1..Len(calls) : calls[i].op = op

\* number of entries of calls with this op
CountOf(op) == Cardinality({i \in 1..Len(calls) : calls[i].op = op})

StageOrder == <<"refine", "search", "build", "retrieve", "llm">>

\* the stages entered, in the order they were entered
StagesEntered ==
    SelectSeq(calls, LAMBDA c : \E i \in 1..Len(StageOrder) : c.op = StageOrder[i])

ResultKeys == {"answer", "sources", "metrics"}
MetricsKeys == {"sources_found", "docs_retrieved", "response_time_ms", "is_error"}

\* process_query has returned a dict
Returned == pc = "done"

\* C1: process_query never lets an exception propagate; whatever step fails,
\* it returns a result carrying answer, sources and metrics.
C1_NeverRaises ==
    /\ pc # "raised"
    /\ Returned => DOMAIN result = ResultKeys

\* C2: every terminal path returns metrics holding all four fields
\* sources_found, docs_retrieved, response_time_ms and is_error.
C2_MetricsComplete ==
    Returned => DOMAIN result.metrics = MetricsKeys

\* C3: the search issues at most SEARCH_RETRY_ATTEMPTS requests, a further one
\* only after the previous one failed; it returns the normalized records of
\* the first successful response, and the empty list, without raising, when
\* every attempt has failed.
C3_SearchRetry ==
    /\ attempt = Len(responses)
    /\ attempt <= SEARCH_RETRY_ATTEMPTS
    /\ CountOf("http") <= SEARCH_RETRY_ATTEMPTS
    /\ \A i \in 1..(Len(responses) - 1) : responses[i] \in RequestFailures
    /\ pc = "request" => \A i \in 1..Len(responses) : responses[i] \in RequestFailures
    /\ pc = "searched" =>
          IF gave_up
          THEN /\ attempt = SEARCH_RETRY_ATTEMPTS
               /\ \A i \in 1..Len(responses) : responses[i] \in RequestFailures
               /\ papers = <<>>
          ELSE /\ responses[Len(responses)] = "ok"
               /\ Len(papers) = Len(data)
               /\ \A i \in 1..Len(data) :
                    /\ papers[i].title = (IF data[i].title = Absent THEN "No title"
                                          ELSE data[i].title)
                    /\ papers[i].abstract = (IF data[i].abstract \in {Absent, NONE, ""}
                                             THEN Sentinel ELSE data[i].abstract)
                    /\ papers[i].url = (IF data[i].url = Absent THEN "No URL"
                                        ELSE data[i].url)
    /\ Started("search") => pc # "raised"

\* two requests failed and the third, the last one allowed, succeeded
C3_Witness ==
    /\ pc = "searched"
    /\ attempt = SEARCH_RETRY_ATTEMPTS
    /\ ~ gave_up
    /\ responses[1] = "Timeout"
    /\ responses[2] = "HTTPError"
    /\ papers # <<>>

\* C4: with the language-model credential not configured, process_query
\* returns is_error true and has made no search request, built no index and
\* called no language model.
C4_NoCallWithoutCredential ==
    (pc # "idle" /\ google_key \in {NONE, ""}) =>
        /\ calls = <<>>
        /\ attempt = 0
        /\ db = <<>>
        /\ pc \in {"check_credential", "done"}
        /\ Returned => result.metrics.is_error = TRUE

\* the credential is set to the empty string and the call has returned
C4_Witness ==
    /\ Returned
    /\ google_key = ""
    /\ result.answer = CredentialAnswer
    /\ result.metrics.is_error = TRUE

\* C5: the stages run in the order refine, search, build index, retrieve,
\* synthesize, each at most once, a stage only after every earlier one ended
\* without a terminal outcome: the index is built only from a non-empty search
\* result, retrieval runs only on a built index, and the language model is
\* invoked only after a non-empty retrieved set.
C5_StageOrder ==
    /\ Len(StagesEntered) <= Len(StageOrder)
    /\ \A i \in 1..Len(StagesEntered) : StagesEntered[i].op = StageOrder[i]
    /\ Started("build") => papers # <<>>
    /\ Started("embed") => (Started("build") /\ docs # <<>>)
    /\ Started("retrieve") => (Started("embed") /\ db # <<>>)
    /\ Started("llm") => (papers # <<>> /\ db # <<>> /\ retrieved_docs # <<>>)
    /\ (Returned /\ result.answer \in {CredentialAnswer, NoPapersAnswer}) => ~ Started("build")
    /\ (Returned /\ result.answer = NoAnswerAnswer) => ~ Started("llm")

\* all five stages ran and the call returned the model's answer
C5_Witness ==
    /\ Returned
    /\ Len(StagesEntered) = Len(StageOrder)
    /\ result.metrics.is_error = FALSE
    /\ result.answer = <<"generated answer">>

\* C6: when the search yields no paper, from an empty response or from
\* exhausted retries, the result is the "no papers" answer with no sources,
\* is_error false and sources_found 0.
C6_NoPapers ==
    (Returned /\ Started("search") /\ papers = <<>>) =>
        /\ result.answer = NoPapersAnswer
        /\ result.sources = <<>>
        /\ result.metrics.is_error = FALSE
        /\ result.metrics.sources_found = 0

\* every request failed and the call returned the "no papers" answer
C6_Witness ==
    /\ Returned
    /\ gave_up
    /\ CountOf("http") = SEARCH_RETRY_ATTEMPTS
    /\ result.answer = NoPapersAnswer

\* the shape in which the handler of lines 138-141 reports any exception
ReportedAsFailure(r) ==
    r.metrics.is_error = TRUE /\ Head(r.answer) = "An error occurred: "

\* the search returned papers and every one has the sentinel abstract
AllAbstractsMissing ==
    papers # <<>> /\ \A i \in 1..Len(papers) : papers[i].abstract = Sentinel

\* C7: when every returned paper has the sentinel abstract, the answer differs
\* from the "no papers" answer, sources_found > 0, docs_retrieved = 0, and the
\* outcome is reported as content insufficiency, not in the way a system
\* failure is reported.
C7_ContentInsufficiency ==
    (Returned /\ Started("build") /\ AllAbstractsMissing) =>
        /\ result.answer # NoPapersAnswer
        /\ result.metrics.sources_found > 0
        /\ result.metrics.docs_retrieved = 0
        /\ ~ ReportedAsFailure(result)

\* the source URLs of the retrieved documents
RetrievedURLs == {retrieved_docs[i].metadata.source : i \in 1..Len(retrieved_docs)}

\* the run ended on the success path
Succeeded == Returned /\ Started("llm") /\ exc = NoExc

\* C8: on the success path sources holds each source URL of the retrieved
\* chunks exactly once: as many entries as distinct URLs.
C8_SourcesDeduplicated ==
    Succeeded =>
        /\ Len(result.sources) = Cardinality(RetrievedURLs)
        /\ \A u \in RetrievedURLs :
              Cardinality({i \in 1..Len(result.sources) : result.sources[i] = u}) = 1
        /\ \A i \in 1..Len(result.sources) : result.sources[i] \in RetrievedURLs

\* three chunks of two URLs were retrieved and sources has two entries
C8_Witness ==
    /\ Succeeded
    /\ Len(retrieved_docs) = 3
    /\ Cardinality(RetrievedURLs) = 2
    /\ Len(result.sources) = 2

\* the language-model call was made and an exception was handled after it
SynthesisFailed ==
    Returned /\ Started("llm") /\ exc # NoExc

\* C9: when the language-model call raises, the result has is_error true,
\* response_time_ms >= 0, no sources, and an answer containing the detail of
\* the exception.
C9_SynthesisFailure ==
    SynthesisFailed =>
        /\ result.metrics.is_error = TRUE
        /\ "response_time_ms" \in DOMAIN result.metrics
        /\ result.metrics.response_time_ms >= 0
        /\ result.sources = <<>>
        /\ \E i \in 1..Len(result.answer) : result.answer[i] = exc

\* the model raised after one failed search request; the time is measured
C9_Witness ==
    /\ SynthesisFailed
    /\ exc = "quota exceeded"
    /\ CountOf("http") = 2
    /\ result.metrics.response_time_ms >= 2000
    /\ result.answer = <<"An error occurred: ", "quota exceeded">>

\* C10: the refined query goes to the search client only; the retriever and
\* the language model get the original query.
C10_QueryRouting ==
    \A i \in 1..Len(calls) :
        /\ calls[i].op \in {"search", "http"} => calls[i].arg = refined_query
        /\ calls[i].op \in {"retrieve", "llm"} =>
              (calls[i].arg = query /\ (refined_query # query => calls[i].arg # refined_query))

\* the query was refined and the language model was called
C10_Witness ==
    /\ Returned
    /\ Started("retrieve")
    /\ Started("llm")
    /\ query = <<"R", "A", "G">>
    /\ refined_query = RefinePrefix \o query
(* ----------------------- C11 ------------------------------------------- *)
\* a and b are the same letter up to case, b being in lower case
SameLetter(a, b) ==
    a = b \/ (a \in DOMAIN UpperToLower /\ UpperToLower[a] = b)

\* q holds one of the trigger phrases, case ignored
HoldsTrigger(q) ==
    \E k \in 1..Len(definitional_keywords) :
        \E i \in 0..(Len(q) - Len(definitional_keywords[k])) :
            \A j \in 1..Len(definitional_keywords[k]) :
                SameLetter(q[i + j], definitional_keywords[k][j])

\* "explanation and key concepts of "
ExplanatoryPrefix ==
    <<"e", "x", "p", "l", "a", "n", "a", "t", "i", "o", "n", " ", "a", "n", "d",
      " ", "k", "e", "y", " ", "c", "o", "n", "c", "e", "p", "t", "s", " ", "o",
      "f", " ">>

\* C11: the refiner returns a query that holds a trigger phrase (case
\* ignored) unchanged, and returns any other query with exactly the prefix
\* "explanation and key concepts of " put before it
C11_RefineRule ==
    pc = "refined" =>
        IF HoldsTrigger(query)
        THEN refined_query = query
        ELSE refined_query = ExplanatoryPrefix \o query

\* a query that holds "principles of" in capitals only was returned as it
\* came
C11_Witness ==
    /\ pc = "refined"
    /\ HoldsTrigger(query)
    /\ ~ Contains(definitional_keywords[5], query)
    /\ Contains(definitional_keywords[5], lower(query))
    /\ refined_query = query

(* ----------------------- C12 ------------------------------------------- *)
\* s ends with q
EndsWith(s, q) ==
    /\ Len(q) <= Len(s)
    /\ SubSeq(s, Len(s) - Len(q) + 1, Len(s)) = q

\* C12: refining a refined query changes nothing, and the refined query
\* ends with the original query
C12_RefineIdempotent ==
    /\ pc = "refined" => EndsWith(refined_query, query)
    /\ pc = "refined twice" =>
           /\ calls[1].arg = refined_query
           /\ EndsWith(refined_query, query)

\* a query without trigger phrase was refined twice: the first pass put the
\* prefix before it and the second pass kept that
C12_Witness ==
    /\ pc = "refined twice"
    /\ ~ HoldsTrigger(query)
    /\ Len(refined_query) > Len(query)
    /\ calls[1].arg = refined_query

(* ----------------------- C15 ------------------------------------------- *)
\* the API response carries no abstract for the paper
NoAbstract(raw) == raw.abstract \in {Absent, NONE, ""}

\* C15: every paper record of the search client has an abstract that is a
\* string and not null; an abstract that is absent, null or empty in the
\* response is replaced by the sentinel and any other abstract is kept, so
\* comparing with the sentinel finds every paper without an abstract
C15_AbstractNormalized ==
    pc \in {"normalized", "filtered"} =>
        /\ Len(papers) = Len(data)
        /\ \A i \in 1..Len(papers) :
              /\ papers[i].abstract \notin {NONE, Absent}
              /\ NoAbstract(data[i]) => papers[i].abstract = Sentinel
              /\ ~ NoAbstract(data[i]) => papers[i].abstract = data[i].abstract
        /\ pc = "filtered" =>
              \A i \in 1..Len(papers) :
                  NoAbstract(data[i]) =>
                      \A j \in 1..Len(docs) :
                          docs[j].page_content[1] # papers[i].abstract

\* a response with one null and one empty abstract was turned into records
C15_Witness ==
    /\ pc = "normalized"
    /\ Len(data) = 2
    /\ data[1].abstract = NONE
    /\ data[2].abstract = ""
    /\ papers[1].abstract = Sentinel
    /\ papers[2].abstract = Sentinel

(* ----------------------- C14 ------------------------------------------- *)
\* the document is a chunk of a paper of this invocation that has an abstract
FromAbstract(d) ==
    \E i \in 1..Len(papers) :
        /\ papers[i].abstract \notin {Sentinel, "", NONE}
        /\ d.page_content[1] = papers[i].abstract
        /\ d.metadata.source = papers[i].url

\* build_vector_store has returned an index in this invocation
IndexReturned == pc = "retrieve" \/ Started("retrieve")

\* C14: build_vector_store raises its ValueError exactly when the papers
\* yield no chunk, as they do when every abstract is the sentinel; it never
\* embeds an empty list of chunks; an index it returns holds at least one
\* chunk and only chunks of papers whose abstract is not the sentinel
C14_NoEmptyIndex ==
    /\ Started("build") => (exc = NoAbstractsDetail <=> docs = <<>>)
    /\ (Started("build") /\ AllAbstractsMissing) => exc = NoAbstractsDetail
    /\ exc = NoAbstractsDetail => ~ Started("embed")
    /\ pc = "embed" => docs # <<>>
    /\ IndexReturned =>
          /\ db # <<>>
          /\ \A j \in 1..Len(db) : FromAbstract(db[j])

\* an index was returned for a response of two papers, one of them without
\* an abstract
C14_Witness ==
    /\ pc = "retrieve"
    /\ Len(papers) = 2
    /\ \E i \in 1..2 : papers[i].abstract = Sentinel
    /\ db # <<>>

(* ----------------------- C17 ------------------------------------------- *)
\* the index was built and the retriever returned no document
EmptyRetrieval ==
    /\ Started("retrieve")
    /\ exc = NoExc
    /\ retrieved_docs = <<>>

\* C17: when retrieval returns nothing after the index was built, the call
\* returns the answer "Could not find a specific answer in the retrieved
\* papers." with is_error false, sources "" and docs_retrieved 0, and the
\* language model is never invoked
C17_EmptyRetrieval ==
    /\ EmptyRetrieval => (pc = "done" /\ ~ Started("llm"))
    /\ (Returned /\ EmptyRetrieval) =>
          /\ result.answer = <<"Could not find a specific answer in the retrieved papers.">>
          /\ result.sources = <<>>
          /\ result.metrics.is_error = FALSE
          /\ result.metrics.docs_retrieved = 0

\* the index held chunks, retrieval returned none and the call has returned
C17_Witness ==
    /\ Returned
    /\ EmptyRetrieval
    /\ db # <<>>
    /\ result.metrics.sources_found >= 1
    /\ result.metrics.docs_retrieved = 0

(* ----------------------- C20 ------------------------------------------- *)
\* C20: in every returned result, sources other than "" come with is_error
\* false, docs_retrieved >= 1 and sources_found >= 1, and docs_retrieved >= 1
\* comes with sources_found >= 1
C20_SourcesOnlyOnSuccess ==
    Returned =>
        /\ result.sources # <<>> =>
              /\ result.metrics.is_error = FALSE
              /\ result.metrics.docs_retrieved >= 1
              /\ result.metrics.sources_found >= 1
        /\ result.metrics.docs_retrieved >= 1 =>
              result.metrics.sources_found >= 1

\* a result with sources was returned
C20_Witness ==
    /\ Returned
    /\ result.sources # <<>>
    /\ result.metrics.docs_retrieved >= 2
    /\ result.metrics.sources_found >= 1

(* ----------------------- C13 ------------------------------------------- *)
\* C13: the documents retrieved in an invocation are chunks of the papers
\* that this invocation's search returned, never chunks indexed by another
\* invocation of the same process
C13_IndexIsolation ==
    \A j \in 1..Len(retrieved_docs) : FromAbstract(retrieved_docs[j])

(* ----------------------- C18 ------------------------------------------- *)
\* the columns of a row of rag_monitoring
Columns == required_keys \cup {"id", "timestamp"}

\* the fields that process_query reports in metrics
MetricFields ==
    {"response_time_ms", "sources_found", "docs_retrieved", "is_error"}

\* the step logs the returned result and gets an id
ResultLogged ==
    /\ pc = "done"
    /\ pc' = "idle"
    /\ last_interaction_id' # NoId

\* C18: whichever path process_query returned by, the record inserted for
\* the result has all eight fields: query, answer and sources as returned,
\* feedback_score null, each metric as the pipeline set it and null where
\* the pipeline did not set it; no insert fails for a missing field
C18_CompleteRecords ==
    /\ [](\A i \in 1..Len(table) :
            /\ DOMAIN table[i] = Columns
            /\ table[i].answer[1] = "CRITICAL ERROR: " =>
                  table[i].answer[2] \in ExcDetails)
    /\ [][ResultLogged =>
            /\ Len(table') = Len(table) + 1
            /\ LET row == table'[Len(table')]
               IN  /\ row.id = last_interaction_id'
                   /\ row.query = query
                   /\ row.answer = result.answer
                   /\ row.sources = result.sources
                   /\ row.feedback_score = NONE
                   /\ \A k \in MetricFields :
                         IF k \in DOMAIN result.metrics
                         THEN row[k] = result.metrics[k]
                         ELSE row[k] = NONE]_vars

\* the table holds the row of a "no papers" result, whose response time the
\* pipeline never set, with a null response time
C18_Witness ==
    \E i \in 1..Len(table) :
        /\ table[i].answer = NoPapersAnswer
        /\ table[i].response_time_ms = NONE
        /\ table[i].sources_found = 0
        /\ table[i].id = i

(* ----------------------- C19 ------------------------------------------- *)
\* C19: every feedback update is written to the row logged for the query
\* submitted last before the click, and no row gets two feedback updates
C19_FeedbackTarget ==
    /\ \A u \in 1..Len(updates) :
          \E i \in 1..Len(table) :
              /\ table[i].id = updates[u].id
              /\ table[i].timestamp = updates[u].at
    /\ \A u, v \in 1..Len(updates) :
          u # v => updates[u].id # updates[v].id

(* ----------------------- C16 ------------------------------------------- *)
\* C16: whatever the abstract, every chunk the splitter of
\* build_vector_store produces is at most CHUNK_SIZE characters long
C16_ChunkBound ==
    pc = "split" =>
        \A j \in 1..Len(docs) : Len(docs[j].page_content) <= CHUNK_SIZE

====
